---- MODULE Spec2Model ----
(***************************************************************************)
(* scikits.learn k-nearest-neighbour wrapper (class Neighbors) and the     *)
(* neighbour-search engine it drives through ctypes.                       *)
(*                                                                         *)
(* The wrapper (neighbors.py) is modelled from its source.  The engine     *)
(* (_neighbors: allocate_neighborer, delete_neighborer, find_kneighbors,   *)
(* find_parzen) is a compiled library whose source is not part of the      *)
(* tree; it is modelled from the design document (spec.md, sections 3-7).  *)
(*                                                                         *)
(* Numbers.  Coordinates are integers on a grid.  A distance is carried as *)
(* its square (an integer) and a radius r >= 0 is compared through r*r:    *)
(* squaring is strictly increasing on the non-negative reals, so every     *)
(* comparison and every equality between distances is the one the          *)
(* Euclidean distances give.                                               *)
(***************************************************************************)
EXTENDS Integers, Sequences, FiniteSets, TLC

(***************************************************************************)
(* Bounds of the model.                                                    *)
(***************************************************************************)
\* largest number of rows of a sample matrix (0 rows: the empty input)
MaxN == 3
\* the coordinates of one-dimensional samples are 0, 2, ..., 2 * MaxCoord
MaxCoord == 2

\* column counts of the sample matrices
Dims == {1, 2}

\* the thread that issues the calls of a sequential program, and the threads
\* of a program that queries one object in parallel
MainThread == "t1"
Threads == {"t1", "t2"}

\* an optional argument is <<>> when it is not passed (None) and <<v>> when
\* it is passed with value v
None == <<>>
Some(v) == <<v>>

(***************************************************************************)
(* Helpers on rows, pairs and sets.                                        *)
(***************************************************************************)
\* coordinate values of a sample matrix with D columns: even numbers, so
\* that a query point can lie strictly between two samples, nearer to one
\* of them
Grid(D) == {2 * c : c \in 0 .. (IF D = 1 THEN MaxCoord ELSE 1)}

\* coordinate values of a query point
QGrid(D) == 0 .. 2 * (IF D = 1 THEN MaxCoord ELSE 1)

\* all sample rows and all query rows with D columns
Rows(D) == [1 .. D -> Grid(D)]
QRows(D) == [1 .. D -> QGrid(D)]

\* all sequences over S of length lo..hi
SeqsOf(S, lo, hi) == UNION {[1 .. n -> S] : n \in lo .. hi}

Min2(a, b) == IF a <= b THEN a ELSE b

\* squared Euclidean distance between the first D coordinates of p and q
RECURSIVE SumSq(_, _, _)
SumSq(p, q, D) ==
  IF D = 0 THEN 0 ELSE (p[D] - q[D]) * (p[D] - q[D]) + SumSq(p, q, D - 1)

\* a report is a pair <<distance, id>>; ascending (distance, id) order
PairLess(a, b) == a[1] < b[1] \/ (a[1] = b[1] /\ a[2] < b[2])

MinPair(S) == CHOOSE a \in S : \A b \in S : a = b \/ PairLess(a, b)

MaxPair(S) == CHOOSE a \in S : \A b \in S : a = b \/ PairLess(b, a)

\* the pairs of S as a sequence in ascending (distance, id) order
RECURSIVE SortPairs(_)
SortPairs(S) ==
  IF S = {} THEN <<>>
  ELSE LET m == MinPair(S) IN <<m>> \o SortPairs(S \ {m})

\* the first n elements of a sequence
Take(s, n) == SubSeq(s, 1, Min2(n, Len(s)))

\* ctypes converts a Python int passed for a c_ulong argument by masking it
\* to the width of unsigned long (no overflow check).  unsigned long is 32
\* or 64 bits wide; TLC integers are 32-bit signed, so the model keeps the
\* residues modulo 2^30: what matters is that a negative k arrives as a
\* positive number far above any N.
ULongModulus == 2 ^ 30

CULong(v) == v % ULongModulus

(***************************************************************************)
(* The engine (_neighbors), modelled from the design document.             *)
(***************************************************************************)
\* a subset of at most LeafSize points is not split further (section 4.1:
\* a tunable, every threshold gives the same query results; with 1 the
\* point sets of the model are split as far as the depth budget allows)
LeafSize == 1

\* row of point id i (ids are 0-based, section 3)
Row(pts, i) == pts[i + 1]

\* the <<coordinate, id>> pairs of ids along dimension dim
CoordPairs(pts, ids, dim) == {<<Row(pts, i)[dim], i>> : i \in ids}

\* split value: the (lower) median coordinate along dim, ties by point id
Median(pts, ids, dim) ==
  SortPairs(CoordPairs(pts, ids, dim))[(Cardinality(ids) + 1) \div 2][1]

\* section 4.1: recursive partition, splitting dimension round-robin by
\* level, points <= split to the left child, until the depth budget is
\* exhausted or the subset is small
RECURSIVE BuildNode(_, _, _, _, _)
BuildNode(pts, D, ids, depth, level) ==
  IF depth = 0 \/ Cardinality(ids) <= LeafSize
  THEN [leaf |-> TRUE, ids |-> ids]
  ELSE LET dim == (level % D) + 1
           split == Median(pts, ids, dim)
           L == {i \in ids : Row(pts, i)[dim] <= split}
       IN [leaf |-> FALSE, dim |-> dim, split |-> split,
           left |-> BuildNode(pts, D, L, depth - 1, level + 1),
           right |-> BuildNode(pts, D, ids \ L, depth - 1, level + 1)]

NoIndex == [N |-> 0, D |-> 0, pts |-> <<>>, root |-> [leaf |-> TRUE, ids |-> {}]]

\* build(points, N, D, max-depth) -> IndexHandle; EmptyInputError if N = 0
allocate_neighborer(pts, N, D, depth) ==
  IF N = 0 THEN [err |-> "EmptyInputError", index |-> NoIndex]
  ELSE [err |-> "none",
        index |-> [N |-> N, D |-> D, pts |-> pts,
                   root |-> BuildNode(pts, D, 0 .. N - 1, depth, 0)]]

\* bounded candidate set of the k closest seen so far: insert, evicting the
\* current worst when full (section 4.2)
HeapInsert(heap, cand, k) ==
  IF Cardinality(heap) < k THEN heap \cup {cand}
  ELSE IF PairLess(cand, MaxPair(heap))
       THEN (heap \ {MaxPair(heap)}) \cup {cand}
       ELSE heap

\* at a leaf: exact distance to every contained point, in id order
RECURSIVE LeafInsert(_, _, _, _, _)
LeafInsert(ix, ids, q, k, heap) ==
  IF ids = {} THEN heap
  ELSE LET i == CHOOSE j \in ids : \A l \in ids : j <= l
       IN LeafInsert(ix, ids \ {i}, q, k,
                     HeapInsert(heap, <<SumSq(Row(ix.pts, i), q, ix.D), i>>, k))

\* lower bound on the squared distance from q to any point on the other
\* side of the splitting hyperplane
Gap(node, q) == (q[node.dim] - node.split) * (q[node.dim] - node.split)

\* section 4.2: depth-first, nearer child first; the sibling is entered only
\* if its region can still hold a point closer than the current worst
RECURSIVE KnnVisit(_, _, _, _, _)
KnnVisit(ix, node, q, k, heap) ==
  IF node.leaf THEN LeafInsert(ix, node.ids, q, k, heap)
  ELSE LET goLeft == q[node.dim] <= node.split
           near == IF goLeft THEN node.left ELSE node.right
           far == IF goLeft THEN node.right ELSE node.left
           h1 == KnnVisit(ix, near, q, k, heap)
       IN IF Cardinality(h1) < k \/ Gap(node, q) < MaxPair(h1)[1]
          THEN KnnVisit(ix, far, q, k, h1)
          ELSE h1

\* section 4.3: prune a subtree whose region lies farther than the radius,
\* at a leaf keep every point with distance <= radius
RECURSIVE RadiusVisit(_, _, _, _)
RadiusVisit(ix, node, q, r2) ==
  IF node.leaf
  THEN {<<SumSq(Row(ix.pts, i), q, ix.D), i>> : i \in
           {j \in node.ids : SumSq(Row(ix.pts, j), q, ix.D) <= r2}}
  ELSE LET goLeft == q[node.dim] <= node.split
           near == IF goLeft THEN node.left ELSE node.right
           far == IF goLeft THEN node.right ELSE node.left
       IN RadiusVisit(ix, near, q, r2)
            \cup (IF Gap(node, q) <= r2 THEN RadiusVisit(ix, far, q, r2) ELSE {})

\* validation before any traversal (section 7)
KnnError(ix, dim, k) ==
  IF dim # ix.D THEN "DimensionMismatchError"
  ELSE IF k <= 0 THEN "InvalidKError"
  ELSE "none"

ParzenError(ix, dim, r) ==
  IF dim # ix.D THEN "DimensionMismatchError"
  ELSE IF r < 0 THEN "InvalidRadiusError"
  ELSE "none"

\* findKNearest: the candidates left after the whole traversal, in ascending
\* (distance, id) order; q is what the engine reads behind the pointer
find_kneighbors(ix, q, dim, k) ==
  SortPairs(KnnVisit(ix, ix.root, q, k, {}))

\* findWithinRadius: collect, then emit in ascending (distance, id) order
find_parzen(ix, q, dim, r) ==
  SortPairs(RadiusVisit(ix, ix.root, q, r * r))

(***************************************************************************)
(* The wrapper: class Neighbors.                                           *)
(***************************************************************************)
VARIABLES
  points,       \* self.points: the sample matrix, a sequence of rows
  labels,       \* self.labels
  _k,           \* self._k: default number of neighbours
  window_size,  \* self.window_size: default window
  _neigh,       \* self._neigh: None while the attribute does not exist,
                \* Some(h) once assigned (h = 0 after the release)
  dist,         \* self.dist
  ind,          \* self.ind
  phase,        \* "new" (before __init__), "live", "failed" (__init__
                \* raised), "dead" (__del__ has run)
  ctorErr,      \* the exception __init__ raised, or "none"
  delErr,       \* the exception __del__ raised, or "none"
  index,        \* engine: the index built behind the handle
  live,         \* engine: the handle is allocated and not yet released
  releases,     \* engine: delete_neighborer calls on a live handle
  badReleases,  \* engine: delete_neighborer calls on any other handle
  pc,           \* per thread: "idle", "engine" (inside the engine, before
                \* its traversal has completed), "emit" (the engine is
                \* invoking the callback), "done" (the call has ended)
  call,         \* per thread: the current or last call and its arguments
  pending,      \* per thread: reports the engine has still to make
  trace,        \* per thread: the callback invocations of the query,
                \* each [d, i, ret]
  result,       \* per thread: None, or Some(value returned by the call)
  err,          \* per thread: the error the call ended with, or "none"
  used          \* history: a call on the object has already ended

vars == <<points, labels, _k, window_size, _neigh, dist, ind, phase, ctorErr,
          delErr, index, live, releases, badReleases, pc, call, pending,
          trace, result, err, used>>

selfVars == <<points, labels, _k, window_size, _neigh>>
engineVars == <<index, live, releases, badReleases>>

NoCall == [op |-> "none", point |-> <<>>, arg |-> None, earg |-> 0]

Init ==
  /\ points = <<>> /\ labels = <<>> /\ _k = 0 /\ window_size = 0
  /\ _neigh = None /\ dist = <<>> /\ ind = <<>>
  /\ phase = "new" /\ ctorErr = "none" /\ delErr = "none"
  /\ index = NoIndex /\ live = FALSE /\ releases = 0 /\ badReleases = 0
  /\ pc = [t \in Threads |-> "idle"]
  /\ call = [t \in Threads |-> NoCall]
  /\ pending = [t \in Threads |-> <<>>]
  /\ trace = [t \in Threads |-> <<>>]
  /\ result = [t \in Threads |-> None]
  /\ err = [t \in Threads |-> "none"]
  /\ used = FALSE

\* int(math.log(N) / (D * math.log(2))) for N >= 1: the largest m with
\* 2^(m*D) <= N
TreeDepth(N, D) == CHOOSE m \in 0 .. N : 2 ^ (m * D) <= N /\ 2 ^ ((m + 1) * D) > N

\* Neighbors.__init__(samples, labels, k, window_size); samples is an N x D
\* matrix.  math.log(0) raises ValueError before the engine is called and
\* before self._neigh is assigned.
__init__(samples, D, labs, k, ws) ==
  /\ phase = "new"
  /\ _k' = k
  /\ window_size' = ws
  /\ points' = samples
  /\ labels' = labs
  /\ IF Len(samples) = 0
     THEN /\ ctorErr' = "ValueError"
          /\ phase' = "failed"
          /\ UNCHANGED <<_neigh, index, live>>
     ELSE LET a == allocate_neighborer(samples, Len(samples), D,
                                       TreeDepth(Len(samples), D))
          IN /\ ctorErr' = a.err
             /\ index' = a.index
             /\ live' = (a.err = "none")
             /\ _neigh' = Some(1)
             /\ phase' = "live"
  /\ UNCHANGED <<dist, ind, delErr, releases, badReleases, pc, call, pending,
                 trace, result, err, used>>

\* Neighbors.__del__: AttributeError when self._neigh was never assigned;
\* otherwise release a non-zero handle (close_func is delete_neighborer,
\* which frees the index) and store 0
__del__ ==
  /\ phase \in {"live", "failed", "dead"}
  /\ \A t \in Threads : pc[t] = "idle"
  /\ phase' = "dead"
  /\ IF _neigh = None
     THEN /\ delErr' = "AttributeError"
          /\ UNCHANGED <<_neigh, index, live, releases, badReleases>>
     ELSE IF _neigh[1] # 0
     THEN /\ live' = FALSE
          /\ index' = NoIndex
          /\ releases' = IF live THEN releases + 1 ELSE releases
          /\ badReleases' = IF live THEN badReleases ELSE badReleases + 1
          /\ _neigh' = Some(0)
          /\ UNCHANGED delErr
     ELSE UNCHANGED <<_neigh, index, live, releases, badReleases, delErr>>
  /\ UNCHANGED <<points, labels, _k, window_size, dist, ind, ctorErr,
                 pc, call, pending, trace, result, err, used>>

\* callback putting the new report in front of the lists
callback_prepend(d, i, distance, indice) ==
  [dist |-> <<distance>> \o d, ind |-> <<indice>> \o i, ret |-> Len(d) + 1]

\* callback returning the length of self.dist before the append
callback_lenBefore(d, i, distance, indice) ==
  [dist |-> Append(d, distance), ind |-> Append(i, indice), ret |-> Len(d)]

\* Neighbors.callback(distance, indice): append to both lists, return the
\* length of self.dist
callback(d, i, distance, indice) ==
  [dist |-> Append(d, distance), ind |-> Append(i, indice), ret |-> Len(d) + 1]

\* the engine invoking the callback once per report, in order
RECURSIVE RunCallbacks(_, _, _, _)
RunCallbacks(reports, d, i, tr) ==
  IF reports = <<>> THEN [dist |-> d, ind |-> i, trace |-> tr]
  ELSE LET c == callback(d, i, Head(reports)[1], Head(reports)[2])
       IN RunCallbacks(Tail(reports), c.dist, c.ind,
                       Append(tr, [d |-> Head(reports)[1],
                                   i |-> Head(reports)[2], ret |-> c.ret]))

\* effective arguments: "if k is None: k = self._k", "if window_size is
\* None: window_size = self.window_size"
\* kneighbors ignoring the k it is passed
KEff_ignoreArg(k) == _k

KEff(k) == IF k = None THEN _k ELSE k[1]

\* parzen ignoring the window it is passed
WEff_ignoreArg(w) == window_size

WEff(w) == IF w = None THEN window_size ELSE w[1]

\* kneighbors without "self.dist, self.ind = [], []"
kneighbors_noReset(t, point, k) ==
  /\ phase = "live"
  /\ pc[t] = "idle"
  /\ UNCHANGED <<dist, ind>>
  /\ LET e == KnnError(index, Len(point), CULong(KEff(k)))
     IN /\ err' = [err EXCEPT ![t] = e]
        /\ pc' = [pc EXCEPT ![t] = IF e = "none" THEN "engine" ELSE "done"]
  /\ call' = [call EXCEPT ![t] = [op |-> "kneighbors", point |-> point,
                                  arg |-> k, earg |-> CULong(KEff(k))]]
  /\ pending' = [pending EXCEPT ![t] = <<>>]
  /\ trace' = [trace EXCEPT ![t] = <<>>]
  /\ result' = [result EXCEPT ![t] = None]
  /\ UNCHANGED <<selfVars, engineVars, phase, ctorErr, delErr, used>>

\* Neighbors.kneighbors(point, k), entry: default k, fresh lists, then the
\* engine is entered with len(point) and k as unsigned longs; the engine
\* validates before it traverses
kneighbors(t, point, k) ==
  /\ phase = "live"
  /\ pc[t] = "idle"
  /\ dist' = <<>>
  /\ ind' = <<>>
  /\ LET e == KnnError(index, Len(point), CULong(KEff(k)))
     IN /\ err' = [err EXCEPT ![t] = e]
        /\ pc' = [pc EXCEPT ![t] = IF e = "none" THEN "engine" ELSE "done"]
  /\ call' = [call EXCEPT ![t] = [op |-> "kneighbors", point |-> point,
                                  arg |-> k, earg |-> CULong(KEff(k))]]
  /\ pending' = [pending EXCEPT ![t] = <<>>]
  /\ trace' = [trace EXCEPT ![t] = <<>>]
  /\ result' = [result EXCEPT ![t] = None]
  /\ UNCHANGED <<selfVars, engineVars, phase, ctorErr, delErr, used>>

\* Neighbors.parzen(point, window_size), entry
parzen(t, point, w) ==
  /\ phase = "live"
  /\ pc[t] = "idle"
  /\ dist' = <<>>
  /\ ind' = <<>>
  /\ LET e == ParzenError(index, Len(point), WEff(w))
     IN /\ err' = [err EXCEPT ![t] = e]
        /\ pc' = [pc EXCEPT ![t] = IF e = "none" THEN "engine" ELSE "done"]
  /\ call' = [call EXCEPT ![t] = [op |-> "parzen", point |-> point,
                                  arg |-> w, earg |-> WEff(w)]]
  /\ pending' = [pending EXCEPT ![t] = <<>>]
  /\ trace' = [trace EXCEPT ![t] = <<>>]
  /\ result' = [result EXCEPT ![t] = None]
  /\ UNCHANGED <<selfVars, engineVars, phase, ctorErr, delErr, used>>

\* the engine's traversal of the index for the query of thread t
Traverse(t) ==
  /\ pc[t] = "engine"
  /\ pending' = [pending EXCEPT ![t] =
       IF call[t].op = "kneighbors"
       THEN find_kneighbors(index, call[t].point, Len(call[t].point), call[t].earg)
       ELSE find_parzen(index, call[t].point, Len(call[t].point), call[t].earg)]
  /\ pc' = [pc EXCEPT ![t] = "emit"]
  /\ UNCHANGED <<selfVars, engineVars, dist, ind, phase, ctorErr, delErr,
                 call, trace, result, err, used>>

\* the engine invokes CALLBACK(self.callback) with its next report
Report(t) ==
  /\ pc[t] = "emit"
  /\ pending[t] # <<>>
  /\ LET r == Head(pending[t])
         c == callback(dist, ind, r[1], r[2])
     IN /\ dist' = c.dist
        /\ ind' = c.ind
        /\ trace' = [trace EXCEPT ![t] =
                       Append(@, [d |-> r[1], i |-> r[2], ret |-> c.ret])]
  /\ pending' = [pending EXCEPT ![t] = Tail(@)]
  /\ UNCHANGED <<selfVars, engineVars, phase, ctorErr, delErr, pc, call,
                 result, err, used>>

\* the engine returns; "return self.dist, self.ind"
Return(t) ==
  /\ pc[t] = "emit"
  /\ pending[t] = <<>>
  /\ result' = [result EXCEPT ![t] = Some(<<dist, ind>>)]
  /\ pc' = [pc EXCEPT ![t] = "done"]
  /\ UNCHANGED <<selfVars, engineVars, dist, ind, phase, ctorErr, delErr,
                 call, pending, trace, err, used>>

\* the values of a sequence
Range(s) == {s[j] : j \in 1 .. Len(s)}

Count(s, v) == Cardinality({j \in 1 .. Len(s) : s[j] = v})

\* scipy.stats.mode: the most frequent value, the smallest one when several
\* are equally frequent
mode(ls) ==
  CHOOSE v \in Range(ls) : \A w \in Range(ls) :
    Count(ls, v) > Count(ls, w) \/ (Count(ls, v) = Count(ls, w) /\ v <= w)

\* self.labels[ind]
LabelsOf(ids) == [j \in 1 .. Len(ids) |-> labels[ids[j] + 1]]

\* one whole kneighbors(point) call as predict makes it: point is a row of
\* np.asmatrix(data), a 1 x D matrix, so len(point) is 1
RowQuery(row) ==
  LET e == KnnError(index, 1, CULong(_k))
  IN IF e # "none"
     THEN [err |-> e, dist |-> <<>>, ind |-> <<>>, trace |-> <<>>]
     ELSE [err |-> "none"] @@
          RunCallbacks(find_kneighbors(index, row, 1, CULong(_k)), <<>>, <<>>, <<>>)

\* the loop of predict over the rows still to do; res holds the labels so
\* far, last the outcome of the latest kneighbors call
RECURSIVE PredictLoop(_, _, _)
PredictLoop(rows, res, last) ==
  IF rows = <<>> THEN [err |-> "none", res |-> res, last |-> last]
  ELSE LET r == RowQuery(Head(rows))
       IN IF r.err # "none"
          THEN [err |-> r.err, res |-> res, last |-> r]
          ELSE PredictLoop(Tail(rows), Append(res, mode(LabelsOf(r.ind))), r)

\* Neighbors.predict(data)
predict(t, data) ==
  /\ phase = "live"
  /\ pc[t] = "idle"
  /\ \E p \in {PredictLoop(data, <<>>,
                            [err |-> "none", dist |-> dist, ind |-> ind,
                             trace |-> trace[t]])} :
        /\ dist' = p.last.dist
        /\ ind' = p.last.ind
        /\ trace' = [trace EXCEPT ![t] = p.last.trace]
        /\ err' = [err EXCEPT ![t] = p.err]
        /\ result' = [result EXCEPT ![t] =
                        IF p.err = "none" THEN Some(p.res) ELSE None]
  /\ call' = [call EXCEPT ![t] = [op |-> "predict", point |-> data,
                                  arg |-> None, earg |-> CULong(_k)]]
  /\ pending' = [pending EXCEPT ![t] = <<>>]
  /\ pc' = [pc EXCEPT ![t] = "done"]
  /\ UNCHANGED <<selfVars, engineVars, phase, ctorErr, delErr, used>>

\* the caller has taken what the call returned (or its error) and is ready
\* for its next call; the object keeps self.dist and self.ind
Finish(t) ==
  /\ pc[t] = "done"
  /\ pc' = [pc EXCEPT ![t] = "idle"]
  /\ call' = [call EXCEPT ![t] = NoCall]
  /\ trace' = [trace EXCEPT ![t] = <<>>]
  /\ result' = [result EXCEPT ![t] = None]
  /\ err' = [err EXCEPT ![t] = "none"]
  /\ used' = TRUE
  /\ UNCHANGED <<selfVars, engineVars, dist, ind, phase, ctorErr, delErr,
                 pending>>

(***************************************************************************)
(* Inputs and specifications.                                              *)
(***************************************************************************)
\* rows of a predict call
MaxRows == 1

\* constructor arguments: every N x D sample matrix on the grid with its
\* labels, and the defaults k, window_size
SampleLengths(D) == IF D = 1 THEN 0 .. MaxN ELSE 0 .. 2
LabelSeqs(N) == {[j \in 1 .. N |-> j % 2]}
DefaultK == {1, 2}
DefaultWindow == {1}

\* query arguments
\* query points: every row of the index's dimensionality and one row of
\* every other dimensionality
QueryPoints(D) == QRows(D) \cup {[j \in 1 .. d |-> 0] : d \in Dims \ {D}}
KArgs == {None} \cup {Some(k) : k \in -1 .. MaxN + 1}
WArgs == {None} \cup {Some(w) : w \in {-1, 0, 3}}

DoConstruct ==
  /\ phase = "new"
  /\ \E D \in Dims : \E samples \in UNION {[1 .. n -> Rows(D)] : n \in SampleLengths(D)} :
       \E labs \in LabelSeqs(Len(samples)) :
         \E k \in DefaultK, ws \in DefaultWindow :
           __init__(samples, D, labs, k, ws)

Ready(t) == phase = "live" /\ pc[t] = "idle"

DoKneighbors(t) ==
  Ready(t) /\ \E q \in QueryPoints(index.D), k \in KArgs : kneighbors(t, q, k)

DoParzen(t) ==
  Ready(t) /\ \E q \in QueryPoints(index.D), w \in WArgs : parzen(t, q, w)

DoPredict(t) ==
  Ready(t) /\ \E data \in SeqsOf(Rows(index.D), 1, MaxRows) : predict(t, data)

\* a program that uses the object from one thread
Next ==
  \/ DoConstruct
  \/ DoKneighbors(MainThread)
  \/ DoParzen(MainThread)
  \/ Traverse(MainThread)
  \/ Report(MainThread)
  \/ Return(MainThread)
  \/ DoPredict(MainThread)
  \/ Finish(MainThread)
  \/ __del__

Spec == Init /\ [][Next]_vars

\* a program whose threads query one object in parallel: the engine call
\* releases the interpreter lock, the callback takes it back for the time
\* it runs
ParSamples == [1 .. 2 -> Rows(1)]
ParKArgs == {None, Some(2)}
ParWArgs == {None}

DoConstructPar ==
  /\ phase = "new"
  /\ \E samples \in ParSamples : \E labs \in LabelSeqs(Len(samples)) :
       __init__(samples, 1, labs, 1, 1)

DoKneighborsPar(t) ==
  Ready(t) /\ \E q \in QRows(index.D), k \in ParKArgs : kneighbors(t, q, k)

DoParzenPar(t) ==
  Ready(t) /\ \E q \in QRows(index.D), w \in ParWArgs : parzen(t, q, w)

NextPar ==
  \/ DoConstructPar
  \/ \E t \in Threads : DoKneighborsPar(t)
  \/ \E t \in Threads : DoParzenPar(t)
  \/ \E t \in Threads : Traverse(t)
  \/ \E t \in Threads : Report(t)
  \/ \E t \in Threads : Return(t)
  \/ \E t \in Threads : Finish(t)
  \/ __del__

SpecPar == Init /\ [][NextPar]_vars

(***************************************************************************)
(* Reference definitions for the properties: brute force over the raw      *)
(* coordinates of self.points.                                             *)
(***************************************************************************)
NPoints == Len(points)

\* the value a call works with: the argument when one was passed, else the
\* constructor's default
Given(arg, default) == IF arg = None THEN default ELSE arg[1]
AskedK(t) == Given(call[t].arg, _k)
AskedW(t) == Given(call[t].arg, window_size)

\* sum of the values of f over the index set S
RECURSIVE SumOver(_, _)
SumOver(f, S) ==
  IF S = {} THEN 0
  ELSE LET j == CHOOSE l \in S : TRUE IN f[j] + SumOver(f, S \ {j})

\* true squared distance from q to input row i, from the raw coordinates
TrueDist(q, i) ==
  SumOver([j \in 1 .. Len(q) |-> (points[i + 1][j] - q[j]) ^ 2], 1 .. Len(q))

\* every point with its true distance
AllPairs(q) == {<<TrueDist(q, i), i>> : i \in 0 .. NPoints - 1}

\* the distances of a sequence of pairs
DistsOf(ps) == [j \in 1 .. Len(ps) |-> ps[j][1]]

\* two sequences hold the same values the same number of times
SameBag(a, b) ==
  /\ Len(a) = Len(b)
  /\ \A v \in Range(a) \cup Range(b) : Count(a, v) = Count(b, v)

\* the elements of a sequence are pairwise distinct
Distinct(s) == \A j, l \in 1 .. Len(s) : j # l => s[j] # s[l]

\* the lists a call returned
ResDist(t) == result[t][1][1]
ResInd(t) == result[t][1][2]

\* the call of thread t has ended and was a kneighbors / parzen call with a
\* query point of the index's dimensionality
KnnDone(t) ==
  /\ pc[t] = "done" /\ call[t].op = "kneighbors"
  /\ Len(call[t].point) = index.D

ParzenDone(t) ==
  /\ pc[t] = "done" /\ call[t].op = "parzen"
  /\ Len(call[t].point) = index.D

\* every id is a row of the input and its distance is that row's
TrueReports(q, ds, is) ==
  /\ Len(ds) = Len(is)
  /\ Distinct(is)
  /\ \A j \in 1 .. Len(is) :
       is[j] \in 0 .. NPoints - 1 /\ ds[j] = TrueDist(q, is[j])

\* C1: a kneighbors call with k >= 1 and a query point of the right
\* dimensionality ends without error and returns exactly min(k, N) reports,
\* with pairwise distinct ids in [0, N), each distance the true distance of
\* its row, the distances being the min(k, N) smallest true distances;
\* k > N returns all N points.
C1_KNearestCorrect ==
  \A t \in Threads :
    (KnnDone(t) /\ AskedK(t) >= 1) =>
      /\ err[t] = "none"
      /\ result[t] # None
      /\ LET q == call[t].point
             m == Min2(AskedK(t), NPoints)
         IN /\ Len(ResDist(t)) = m
            /\ TrueReports(q, ResDist(t), ResInd(t))
            /\ SameBag(ResDist(t), DistsOf(Take(SortPairs(AllPairs(q)), m)))

\* a query on the split index of three points that asks for four
\* neighbours and gets the three points, not all at one distance
C1_Witness ==
  /\ KnnDone(MainThread) /\ result[MainThread] # None
  /\ NPoints = 3 /\ ~index.root.leaf
  /\ AskedK(MainThread) = NPoints + 1
  /\ Len(ResInd(MainThread)) = 3
  /\ ResDist(MainThread)[1] < ResDist(MainThread)[3]

\* C2: a parzen call with radius r >= 0 and a query point of the right
\* dimensionality ends without error and returns exactly the ids whose true
\* distance is <= r, each once and with its true distance; no match gives
\* empty lists.
C2_WithinRadiusCorrect ==
  \A t \in Threads :
    (ParzenDone(t) /\ AskedW(t) >= 0) =>
      /\ err[t] = "none"
      /\ result[t] # None
      /\ LET q == call[t].point
             r == AskedW(t)
         IN /\ TrueReports(q, ResDist(t), ResInd(t))
            /\ Range(ResInd(t)) = {i \in 0 .. NPoints - 1 : TrueDist(q, i) <= r * r}

\* radius 0 on a split index, the query equal to an indexed point: that
\* point is reported with distance 0 and some other point is not reported
C2_Witness ==
  /\ ParzenDone(MainThread) /\ result[MainThread] # None
  /\ AskedW(MainThread) = 0
  /\ ~index.root.leaf
  /\ Len(ResInd(MainThread)) >= 1
  /\ ResDist(MainThread)[1] = 0
  /\ Len(ResInd(MainThread)) < NPoints

\* the reports of a query so far, as the callback recorded them
Recorded == [j \in 1 .. Min2(Len(dist), Len(ind)) |-> <<dist[j], ind[j]>>]

Ascending(ps) == \A j \in 1 .. Len(ps) - 1 : PairLess(ps[j], ps[j + 1])

C7_CallbackCount ==
  \A t \in Threads :
    pc[t] # "idle" =>
      /\ \A j \in 1 .. Len(trace[t]) : trace[t][j].ret = j
      /\ Len(dist) = Len(trace[t])
      /\ Len(ind) = Len(trace[t])

\* a query on an object that has answered before, three invocations made
C7_Witness ==
  /\ used /\ pc[MainThread] = "emit"
  /\ Len(trace[MainThread]) = 3
  /\ trace[MainThread][3].ret = 3
  /\ Len(dist) = 3

\* what the call c returns when it is the first query on an index freshly
\* built from the same input: Some(<<dist, ind>>), or None on an error
FreshRun(c) ==
  LET a == allocate_neighborer(points, NPoints, Len(points[1]),
                               TreeDepth(NPoints, Len(points[1])))
      e == IF c.op = "kneighbors"
           THEN KnnError(a.index, Len(c.point), CULong(Given(c.arg, _k)))
           ELSE ParzenError(a.index, Len(c.point), Given(c.arg, window_size))
      reports == IF c.op = "kneighbors"
                 THEN find_kneighbors(a.index, c.point, Len(c.point), CULong(Given(c.arg, _k)))
                 ELSE find_parzen(a.index, c.point, Len(c.point), Given(c.arg, window_size))
  IN IF e # "none" THEN None
     ELSE Some(<<DistsOf(reports), [j \in 1 .. Len(reports) |-> reports[j][2]]>>)

OwnReportsOnly(t) ==
  (pc[t] = "done" /\ call[t].op \in {"kneighbors", "parzen"}) =>
    result[t] = FreshRun(call[t])

\* C9: no step of a kneighbors, parzen or predict call changes the points,
\* the labels, the handle, the index behind it, the default k or the default
\* window, and what a kneighbors or parzen call returns is what the same
\* call returns as the first query on a freshly built index.
C9_NoCrossQueryState ==
  /\ [](\A t \in Threads : OwnReportsOnly(t))
  /\ [][(phase = "live" /\ phase' = "live") =>
          UNCHANGED <<points, labels, _neigh, _k, window_size, index, live>>]_vars

\* a kneighbors call that returned two reports on an object that has
\* answered a call before
C9_Witness ==
  /\ used /\ pc[MainThread] = "done"
  /\ call[MainThread].op = "kneighbors"
  /\ result[MainThread] # None
  /\ Len(ResInd(MainThread)) = 2

\* C4: a kneighbors call with k <= 0, a parzen call with radius < 0 and
\* either call with a query point of another dimensionality fail with
\* InvalidKError, InvalidRadiusError and DimensionMismatchError, without
\* traversal and without any invocation of the callback.
C4_InvalidRejected ==
  \A t \in Threads :
    LET badDim == Len(call[t].point) # index.D
        badK == call[t].op = "kneighbors" /\ AskedK(t) <= 0
        badR == call[t].op = "parzen" /\ AskedW(t) < 0
    IN (call[t].op \in {"kneighbors", "parzen"} /\ (badDim \/ badK \/ badR)) =>
         /\ pc[t] = "done"
         /\ trace[t] = <<>>
         /\ err[t] \in ((IF badDim THEN {"DimensionMismatchError"} ELSE {})
                          \cup (IF badK THEN {"InvalidKError"} ELSE {})
                          \cup (IF badR THEN {"InvalidRadiusError"} ELSE {}))

\* C5: construction from an empty point set fails with EmptyInputError and
\* leaves no handle; on a single point kneighbors with k = 1 and with k = 2
\* return exactly that point.
C5_DegenerateInputs ==
  /\ (phase # "new" /\ NPoints = 0) =>
       (ctorErr = "EmptyInputError" /\ _neigh = None /\ ~live)
  /\ \A t \in Threads :
       (KnnDone(t) /\ NPoints = 1 /\ AskedK(t) \in {1, 2}) =>
         (/\ ctorErr = "none" /\ index.root.leaf
          /\ result[t] = Some(<<<<TrueDist(call[t].point, 0)>>, <<0>>>>))

\* C6: a kneighbors or parzen call that runs while other calls run on the
\* same object returns what it returns when it runs alone.
C6_ParallelIsolation == \A t \in Threads : OwnReportsOnly(t)

\* the labels the stated tie rule allows for a query row: a most frequent
\* label among
\* the k nearest neighbours, and among equally frequent ones a label whose
\* nearest occurrence has the smallest distance
NearestOf(near, ls, v) ==
  near[CHOOSE j \in 1 .. Len(ls) : ls[j] = v /\ \A l \in 1 .. j - 1 : ls[l] # v][1]

ClaimedLabels(row) ==
  LET near == Take(SortPairs(AllPairs(row)), _k)
      ls == [j \in 1 .. Len(near) |-> labels[near[j][2] + 1]]
  IN {v \in Range(ls) : \A w \in Range(ls) :
       \/ Count(ls, v) > Count(ls, w)
       \/ (Count(ls, v) = Count(ls, w)
             /\ NearestOf(near, ls, v) <= NearestOf(near, ls, w))}

\* C8: predict returns one label per input row, the most frequent label
\* among the row's k nearest neighbours, a tie going to the label first met
\* in the distance-sorted result.
C8_PredictMajority ==
  \A t \in Threads :
    (pc[t] = "done" /\ call[t].op = "predict") =>
      /\ err[t] = "none"
      /\ result[t] # None
      /\ Len(result[t][1]) = Len(call[t].point)
      /\ \A j \in 1 .. Len(call[t].point) :
           result[t][1][j] \in ClaimedLabels(call[t].point[j])

\* C10: once the object has been destroyed, destruction raised no error,
\* the engine's release was called once if construction had obtained a
\* handle and never otherwise, and a stored handle is 0.
C10_ReleaseOnce ==
  phase = "dead" =>
    /\ delErr = "none"
    /\ releases = (IF ctorErr = "none" THEN 1 ELSE 0)
    /\ badReleases = 0
    /\ ~live
    /\ _neigh # None => _neigh = Some(0)

====
